---- MODULE Spec2Model ----
(***************************************************************************)
(* The register map of AxiMicronN25Q (surf/devices/micron/_AxiMicronN25Q.py):*)
(* the constructor adds four remote variables and one array of 64 remote    *)
(* variables to the device; afterwards readers look registers up by name    *)
(* and enumerate them.                                                      *)
(*                                                                         *)
(* The constructor's statements and their keyword arguments are taken from  *)
(* the source file.  The operations of the framework the file calls into    *)
(* (add, addRemoteVariables, find, enumeration) are not part of the         *)
(* repository's sources; they follow sections 3 and 4.1 of the design       *)
(* document.                                                                *)
(***************************************************************************)
EXTENDS Integers, Sequences, FiniteSets, TLC

VARIABLES
    pc,        \* number of statements of __init__ that have run
    nodes,     \* the device's ordered collection of register descriptors
    listed,    \* listed[r]: what reader r's latest enumeration produced, <<>> before it
    enums,     \* enums[r]: how many enumerations reader r has made
    returned,  \* the latest find that returned: [name, value], NoReturn before it
    raised     \* the latest find that raised: [name, error], NoError before it

vars == <<pc, nodes, listed, enums, returned, raised>>

----------------------------------------------------------------------------
(* Bounds of the model *)

\* The number of concurrent readers of the constructed map.
NumReaders == 2

\* A reader enumerates the map at most this often.
MaxEnumerations == 2

Readers == 1..NumReaders

----------------------------------------------------------------------------
(* Register descriptors *)

\* A register name: <<"Test">> for a single register, <<"Data", i>> for
\* element i of an array (the prefix with the index appended).
ScalarName(s) == <<s>>
ElementName(prefix, i) == <<prefix, i>>

\* The hidden flag of a variable declared without one.
HiddenDefault == FALSE

RemoteVariable(name, description, offset, bitSize, bitOffset, base, mode, hidden) ==
    [name |-> name, description |-> description, offset |-> offset,
     bitSize |-> bitSize, bitOffset |-> bitOffset, base |-> base,
     mode |-> mode, hidden |-> hidden]

\* Mutant of TestVar: the scratch pad declared hidden like its neighbours.
TestVarHidden ==
    RemoteVariable(ScalarName("Test"), "Scratch Pad tester register",
                   0, 32, 0, "UInt", "RW", TRUE)

TestVar ==
    RemoteVariable(ScalarName("Test"), "Scratch Pad tester register",
                   0, 32, 0, "UInt", "RW", HiddenDefault)

Addr32BitModeVar ==
    RemoteVariable(ScalarName("Addr32BitMode"), "Enable 32-bit PROM mode",
                   4, 1, 0, "UInt", "RW", TRUE)

AddrVar ==
    RemoteVariable(ScalarName("Addr"), "Address Register",
                   8, 32, 0, "UInt", "RW", TRUE)

\* Mutant of CmdVar: the command register declared at the address register's
\* offset.
CmdVarAtAddr ==
    RemoteVariable(ScalarName("Cmd"), "Command Register",
                   8, 32, 0, "UInt", "RW", TRUE)

CmdVar ==
    RemoteVariable(ScalarName("Cmd"), "Command Register",
                   12, 32, 0, "UInt", "RW", TRUE)

\* Mutant of DataArgs: a stride of 8 bytes.
DataArgsStride8 ==
    [name |-> "Data", description |-> "Data Register Array", offset |-> 512,
     bitSize |-> 32, bitOffset |-> 0, base |-> "UInt", mode |-> "RW",
     number |-> 64, stride |-> 8, hidden |-> TRUE]

\* Mutant of DataArgs: a stride of 2 bytes.
DataArgsStride2 ==
    [name |-> "Data", description |-> "Data Register Array", offset |-> 512,
     bitSize |-> 32, bitOffset |-> 0, base |-> "UInt", mode |-> "RW",
     number |-> 64, stride |-> 2, hidden |-> TRUE]

\* Mutant of DataArgs: 65 elements.
DataArgsNumber65 ==
    [name |-> "Data", description |-> "Data Register Array", offset |-> 512,
     bitSize |-> 32, bitOffset |-> 0, base |-> "UInt", mode |-> "RW",
     number |-> 65, stride |-> 4, hidden |-> TRUE]

\* The keyword arguments of the addRemoteVariables call (0x200 = 512).
DataArgs ==
    [name |-> "Data", description |-> "Data Register Array", offset |-> 512,
     bitSize |-> 32, bitOffset |-> 0, base |-> "UInt", mode |-> "RW",
     number |-> 64, stride |-> 4, hidden |-> TRUE]

\* Mutant of InitBody: Cmd added before Addr.
InitBodyCmdFirst == <<TestVar, Addr32BitModeVar, CmdVar, AddrVar>>

\* The self.add statements of __init__, in program order.
InitBody == <<TestVar, Addr32BitModeVar, AddrVar, CmdVar>>

----------------------------------------------------------------------------
(* Operations of the device base class *)

\* add: the node becomes the last of the device's nodes.
add(ns, node) == Append(ns, node)

\* addRemoteVariables: element i of the array, for i in [0, number), sits at
\* offset + i*stride, inherits every other attribute and is named by the
\* prefix with i appended; the elements are added in ascending index order.
addRemoteVariables(ns, kw) ==
    ns \o [k \in 1..kw.number |->
             RemoteVariable(ElementName(kw.name, k - 1), kw.description,
                            kw.offset + (k - 1) * kw.stride, kw.bitSize,
                            kw.bitOffset, kw.base, kw.mode, kw.hidden)]

\* The position of the first node of that name, 0 when there is none.
RECURSIVE indexOf(_, _, _)
indexOf(ns, name, k) ==
    IF k > Len(ns) THEN 0
    ELSE IF ns[k].name = name THEN k
    ELSE indexOf(ns, name, k + 1)

\* find: the descriptor of that name; NotFoundError when no node has it.
find(ns, name) ==
    LET k == indexOf(ns, name, 1) IN
    IF k = 0 THEN [error |-> "NotFoundError", value |-> <<>>]
    ELSE [error |-> "None", value |-> <<ns[k]>>]

\* Enumeration: the descriptors one after the other from position k on, in
\* the order in which they were added.
RECURSIVE enumerateFrom(_, _)
enumerateFrom(ns, k) ==
    IF k > Len(ns) THEN <<>>
    ELSE <<ns[k]>> \o enumerateFrom(ns, k + 1)

enumerate(ns) == enumerateFrom(ns, 1)

----------------------------------------------------------------------------
(* The state machine *)

\* Mutant of Constructed: the device is handed out while the last statement of
\* __init__ has yet to run.
ConstructedEarly == pc >= Len(InitBody)

\* __init__ has returned: all its statements have run.
Constructed == pc = Len(InitBody) + 1

\* The names readers ask for: declared ones (single registers, the first, an
\* inner and the last element of the array) and names that were never
\* declared (the bare array prefix, an index past the end, an indexed single
\* register, an unknown name).
QueryNames ==
    {ScalarName("Test"), ScalarName("Addr32BitMode"), ScalarName("Cmd"),
     ElementName("Data", 0), ElementName("Data", 5), ElementName("Data", 63),
     ScalarName("Data"), ElementName("Data", 64), ElementName("Cmd", 0),
     ScalarName("Status")}

NoReturn == [name |-> <<>>, value |-> <<>>]
NoError == [name |-> <<>>, error |-> "None"]

Init ==
    /\ pc = 0
    /\ nodes = <<>>
    /\ listed = [r \in Readers |-> <<>>]
    /\ enums = [r \in Readers |-> 0]
    /\ returned = NoReturn
    /\ raised = NoError

\* One self.add(pr.RemoteVariable(...)) statement of __init__.
AddVariable ==
    /\ pc < Len(InitBody)
    /\ nodes' = add(nodes, InitBody[pc + 1])
    /\ pc' = pc + 1
    /\ UNCHANGED <<listed, enums, returned, raised>>

\* The self.addRemoteVariables(...) statement that ends __init__.
AddVariables ==
    /\ pc = Len(InitBody)
    /\ nodes' = addRemoteVariables(nodes, DataArgs)
    /\ pc' = pc + 1
    /\ UNCHANGED <<listed, enums, returned, raised>>

\* Reader r looks a name up: the call returns the descriptor or raises.
Find(r) ==
    /\ Constructed
    /\ \E name \in QueryNames :
         LET res == find(nodes, name) IN
         IF res.error = "None"
         THEN /\ returned' = [name |-> name, value |-> res.value]
              /\ UNCHANGED raised
         ELSE /\ raised' = [name |-> name, error |-> res.error]
              /\ UNCHANGED returned
    /\ UNCHANGED <<pc, nodes, listed, enums>>

\* Reader r enumerates the map from the start.
Enumerate(r) ==
    /\ Constructed
    /\ enums[r] < MaxEnumerations
    /\ listed' = [listed EXCEPT ![r] = enumerate(nodes)]
    /\ enums' = [enums EXCEPT ![r] = enums[r] + 1]
    /\ UNCHANGED <<pc, nodes, returned, raised>>

Next ==
    \/ AddVariable
    \/ AddVariables
    \/ \E r \in Readers : Find(r)
    \/ \E r \in Readers : Enumerate(r)

Spec == Init /\ [][Next]_vars

----------------------------------------------------------------------------
(* The register layout of the design document, section 6 *)

\* The source writes the mode ReadWrite as "RW".
ReadWrite == "RW"

Row(name, offset, bitSize, mode, hidden) ==
    [name |-> name, offset |-> offset, bitSize |-> bitSize, mode |-> mode,
     hidden |-> hidden]

\* The rows of the table in declaration order, the array expanded in place
\* (0x200 = 512).
RegisterTable ==
    << Row(<<"Test">>, 0, 32, ReadWrite, FALSE),
       Row(<<"Addr32BitMode">>, 4, 1, ReadWrite, TRUE),
       Row(<<"Addr">>, 8, 32, ReadWrite, TRUE),
       Row(<<"Cmd">>, 12, 32, ReadWrite, TRUE) >>
      \o [k \in 1..64 |-> Row(<<"Data", k - 1>>, 512 + 4 * (k - 1), 32, ReadWrite, TRUE)]

TableRows == {RegisterTable[k] : k \in 1..Len(RegisterTable)}
TableNames == {row.name : row \in TableRows}

\* Names that a caller may ask for: every prefix of the table and two that
\* are not in it, bare or with an index from -1 to 70.
NameUniverse ==
    LET prefixes == {"Test", "Addr32BitMode", "Addr", "Cmd", "Data", "Status", ""} IN
    {<<s>> : s \in prefixes} \cup {<<s, i>> : s \in prefixes, i \in (0 - 1)..70}

\* What the table says of a descriptor.
View(d) == Row(d.name, d.offset, d.bitSize, d.mode, d.hidden)

\* The bits a descriptor occupies: [BitLo(d), BitHi(d)).
BitLo(d) == 8 * d.offset + d.bitOffset
BitHi(d) == BitLo(d) + d.bitSize

\* The bytes a descriptor touches: [d.offset, ByteEnd(d)).
ByteEnd(d) == d.offset + ((d.bitOffset + d.bitSize + 7) \div 8)

----------------------------------------------------------------------------
(* Claims *)

\* C1: after construction the map holds exactly the 68 registers of the
\* table: Test (0x00, 32 bits, ReadWrite, not hidden), Addr32BitMode (0x04,
\* 1 bit, hidden), Addr (0x08, 32, hidden), Cmd (0x0C, 32, hidden) and Data
\* element i at 0x200 + 4*i (32, hidden) for i in 0..63, and no others.
C1_ExactRegisterSet ==
    Constructed =>
        /\ Len(nodes) = 68
        /\ Cardinality(TableRows) = 68
        /\ {View(nodes[k]) : k \in 1..Len(nodes)} = TableRows

C1_Witness ==
    /\ Constructed
    /\ \E k \in 1..Len(nodes) : nodes[k].name = <<"Data", 63>> /\ nodes[k].offset = 764
    /\ \E k \in 1..Len(nodes) : nodes[k].name = <<"Test">> /\ ~nodes[k].hidden

\* C2: the addRemoteVariables statement adds exactly 64 descriptors after the
\* ones already there, element i (i = 0..63, ascending) at 0x200 + 4*i, the
\* offsets strictly increasing and pairwise distinct, every element with the
\* array's bitSize 32, mode, hidden flag and base type, and named by the
\* prefix "Data" with i appended.
C2_ArrayExpansion ==
    [][ (pc = Len(InitBody) /\ pc' = pc + 1) =>
          LET e == SubSeq(nodes', Len(nodes) + 1, Len(nodes')) IN
          /\ SubSeq(nodes', 1, Len(nodes)) = nodes
          /\ Len(e) = 64
          /\ \A k \in 1..Len(e) :
                /\ e[k].offset = 512 + 4 * (k - 1)
                /\ e[k].name = <<"Data", k - 1>>
                /\ e[k].bitSize = 32
                /\ e[k].mode = ReadWrite
                /\ e[k].hidden = TRUE
                /\ e[k].base = "UInt"
          /\ \A k \in 1..(Len(e) - 1) : e[k].offset < e[k + 1].offset
          /\ \A j, k \in 1..Len(e) : j # k => e[j].offset # e[k].offset
      ]_vars

C2_Witness ==
    /\ pc = Len(InitBody) + 1
    /\ Len(nodes) = Len(InitBody) + 64
    /\ nodes[Len(InitBody) + 1].offset = 512
    /\ nodes[Len(nodes)].offset = 764

\* C3: in every state, no two distinct registers of the map overlap: their
\* bit ranges [8*offset + bitOffset, 8*offset + bitOffset + bitSize) are
\* disjoint.
C3_NoOverlap ==
    \A j, k \in 1..Len(nodes) :
        j # k => (BitHi(nodes[j]) <= BitLo(nodes[k]) \/ BitHi(nodes[k]) <= BitLo(nodes[j]))

\* Reads have happened on the constructed map, which holds registers that
\* touch (Addr ends where Cmd begins) and a word that is only partly used.
C3_Witness ==
    /\ Constructed
    /\ returned # NoReturn
    /\ \E r \in Readers : enums[r] > 0
    /\ \E j, k \in 1..Len(nodes) : j # k /\ BitHi(nodes[j]) = BitLo(nodes[k])
    /\ \E k \in 1..Len(nodes) : nodes[k].bitSize < 32

\* C4: after construction find returns, for every declared name (every
\* expanded Data element included), a descriptor of that name with the
\* declared offset, bitSize and mode (Cmd: 0x0C, 32, ReadWrite; Data element
\* 5: 0x214, 32), and fails with NotFoundError for a name that was not
\* declared; so does every find a reader has made.
C4_FindByName ==
    Constructed =>
        /\ \A row \in TableRows :
              LET res == find(nodes, row.name) IN
              /\ res.error = "None"
              /\ res.value[1].name = row.name
              /\ res.value[1].offset = row.offset
              /\ res.value[1].bitSize = row.bitSize
              /\ res.value[1].mode = row.mode
        /\ find(nodes, <<"Cmd">>).value[1].offset = 12
        /\ find(nodes, <<"Data", 5>>).value[1].offset = 532
        /\ \A name \in (NameUniverse \cup QueryNames) \ TableNames :
              find(nodes, name) = [error |-> "NotFoundError", value |-> <<>>]
        /\ returned # NoReturn =>
              /\ returned.name \in TableNames
              /\ View(returned.value[1]) \in TableRows
              /\ returned.value[1].name = returned.name
        /\ raised # NoError =>
              /\ raised.name \notin TableNames
              /\ raised.error = "NotFoundError"

C4_Witness ==
    /\ returned.name = <<"Data", 5>>
    /\ returned.value[1].offset = 532
    /\ returned.value[1].bitSize = 32
    /\ raised = [name |-> <<"Data", 64>>, error |-> "NotFoundError"]

\* C5: every enumeration yields the descriptors in declaration order with
\* the array expanded in place in ascending index order (Test,
\* Addr32BitMode, Addr, Cmd, Data 0, ..., Data 63), however many
\* enumerations and lookups have been made before it.
C5_EnumerationOrder ==
    \A r \in Readers :
        enums[r] > 0 =>
            /\ Len(listed[r]) = Len(RegisterTable)
            /\ \A k \in 1..Len(listed[r]) : View(listed[r][k]) = RegisterTable[k]

C5_Witness ==
    /\ \A r \in Readers : enums[r] >= 2 /\ Len(listed[r]) = 68
    /\ returned # NoReturn
    /\ raised # NoError

C10_AlignedRegions ==
    Constructed =>
        /\ \A k \in 1..Len(nodes) :
              /\ nodes[k].bitOffset = 0
              /\ nodes[k].offset % 4 = 0
              /\ \/ (0 <= nodes[k].offset /\ ByteEnd(nodes[k]) <= 16)
                 \/ (512 <= nodes[k].offset /\ ByteEnd(nodes[k]) <= 768)
        /\ \A j, k \in 1..Len(nodes) :
              j # k => (nodes[j].offset \div 4) # (nodes[k].offset \div 4)

\* The constructed map reaches the last byte of either region and holds a
\* register narrower than its word.
C10_Witness ==
    /\ Constructed
    /\ \E k \in 1..Len(nodes) : ByteEnd(nodes[k]) = 16
    /\ \E k \in 1..Len(nodes) : ByteEnd(nodes[k]) = 768
    /\ \E k \in 1..Len(nodes) : ByteEnd(nodes[k]) = nodes[k].offset + 1

====
